---- MODULE Spec2Model ----
(***************************************************************************)
(* torpc: the RPC protocol engine of src/torpc/rpc.py.                     *)
(*                                                                         *)
(* One process is modelled: a DuplexRPCServer and the RPCConnection        *)
(* objects of its accepted connections.  The peers of those connections    *)
(* are the environment: they put bytes on the wire and those bytes reach   *)
(* on_receive in chunks of any size.  Every handler is an operator from a  *)
(* state record (one field per variable) to a state record, so that a      *)
(* handler that calls another handler is the composition of the two; an    *)
(* action applies one callback of the io loop to the current state.        *)
(***************************************************************************)
EXTENDS Integers, Sequences, FiniteSets, TLC

\* ------------------------------------------------------------------ bounds

\* reads of the transport handed to on_receive, over all connections
MaxIn == 1
\* frames the peer puts on the wire when reads cut the stream anywhere
MaxStream == 2
\* reads handed to on_receive on the duplex server, over all connections
MaxDuplexIn == 3
MaxServeIn == 2
MaxClientIn == 2
\* call(), register() and notice() invocations on a connection
MaxOps == 2
\* calls and registrations made while the generator runs past its bound
MaxCalls == 2
\* the generator's wrap bound: (1 << 30) at rpc.py:31.  The generator is the
\* same function of its bound whatever the bound is; the model instantiates
\* it small so that TLC reaches the wraparound.
WrapBound == 4

\* the connections the server has accepted
Conns == {1, 2}

\* ------------------------------------------------------- program constants

RPC_REQUEST == 0
RPC_RESPONSE == 1
RPC_NOTICE == 2
RPC_REGISTER == 3
\* struct.calcsize('!ibi'): no padding in network order, 4 + 1 + 4
HEAD_LEN == 9

\* ------------------------------------------------------------------ values
\* The values that travel in payloads, tagged by their Python type.  A str is
\* the sequence of its bytes (Python 2 str), a tuple/list the sequence of its
\* items.

PyNone == [t |-> "nil", v |-> <<>>]
PyBool(b) == [t |-> "bool", v |-> IF b THEN <<1>> ELSE <<0>>]
PyInt(n) == [t |-> "int", v |-> <<n>>]
PyStr(bytes) == [t |-> "str", v |-> bytes]
PyTuple(items) == [t |-> "arr", v |-> items]
\* `self` handed to service.call by handle_rpc_register (never on the wire)
PyConn(c) == [t |-> "conn", v |-> <<c>>]
\* the Future an asynchronous method returns (never on the wire)
PyFuture(h) == [t |-> "future", v |-> <<h>>]

\* Python truth of a value: `if err:` at rpc.py:103
Truthy(x) ==
    CASE x.t = "nil" -> FALSE
      [] x.t = "bool" -> x.v[1] = 1
      [] x.t = "int" -> x.v[1] # 0
      [] x.t = "str" -> Len(x.v) > 0
      [] x.t = "arr" -> Len(x.v) > 0
      [] OTHER -> TRUE

\* the strings the program itself names
S_register == <<114, 101, 103, 105, 115, 116, 101, 114>>
S_call_node == <<99, 97, 108, 108, 95, 110, 111, 100, 101>>

\* Python's s[lo:hi] for 0 <= lo and any hi (a negative hi counts from the end)
PySlice(s, lo, hi) ==
    LET n == Len(s)
        h0 == IF hi < 0 THEN hi + n ELSE hi
        h1 == IF h0 < 0 THEN 0 ELSE IF h0 > n THEN n ELSE h0
        l1 == IF lo > n THEN n ELSE lo
    IN  IF h1 <= l1 THEN <<>> ELSE SubSeq(s, l1 + 1, h1)

\* Python's s[lo:]
PyTail(s, lo) ==
    LET n == Len(s)
        l0 == IF lo < 0 THEN lo + n ELSE lo
        l1 == IF l0 < 0 THEN 0 ELSE IF l0 > n THEN n ELSE l0
    IN  IF l1 >= n THEN <<>> ELSE SubSeq(s, l1 + 1, n)

\* ------------------------------------------------------------------- codec
\* msgpack, for the formats the modelled values use: nil (c0), false/true
\* (c2/c3), positive fixint (00-7f), fixraw (a0-bf), fixarray (90-9f).

RECURSIVE dumps(_)
RECURSIVE dumps_items(_)
dumps_items(items) ==
    IF items = <<>> THEN <<>>
    ELSE dumps(Head(items)) \o dumps_items(Tail(items))

dumps(x) ==
    CASE x.t = "nil" -> <<192>>
      [] x.t = "bool" -> IF x.v[1] = 1 THEN <<195>> ELSE <<194>>
      [] x.t = "int" -> <<x.v[1]>>
      [] x.t = "str" -> <<160 + Len(x.v)>> \o x.v
      [] x.t = "arr" -> <<144 + Len(x.v)>> \o dumps_items(x.v)

\* The unpacker: the first value of `bytes` and what follows it, or a failure
\* (a reserved or unmodelled format byte, or data that ends too early).
UnpackFail == [ok |-> FALSE, val |-> PyNone, rest |-> <<>>]

RECURSIVE unpack_one(_)
RECURSIVE unpack_items(_, _, _)
unpack_items(n, bytes, acc) ==
    IF n = 0 THEN [ok |-> TRUE, val |-> PyTuple(acc), rest |-> bytes]
    ELSE LET r == unpack_one(bytes)
         IN  IF ~r.ok THEN UnpackFail
             ELSE unpack_items(n - 1, r.rest, Append(acc, r.val))

unpack_one(bytes) ==
    IF bytes = <<>> THEN UnpackFail
    ELSE LET b == Head(bytes)
             rest == Tail(bytes)
         IN  CASE b <= 127 -> [ok |-> TRUE, val |-> PyInt(b), rest |-> rest]
               [] b = 192 -> [ok |-> TRUE, val |-> PyNone, rest |-> rest]
               [] b = 194 -> [ok |-> TRUE, val |-> PyBool(FALSE), rest |-> rest]
               [] b = 195 -> [ok |-> TRUE, val |-> PyBool(TRUE), rest |-> rest]
               [] b >= 160 /\ b <= 191 ->
                    IF Len(rest) < b - 160 THEN UnpackFail
                    ELSE [ok |-> TRUE, val |-> PyStr(SubSeq(rest, 1, b - 160)),
                          rest |-> SubSeq(rest, b - 160 + 1, Len(rest))]
               [] b >= 144 /\ b <= 159 -> unpack_items(b - 144, rest, <<>>)
               [] OTHER -> UnpackFail

\* packer.loads: exactly one value, no bytes left over, else it raises
loads(bytes) ==
    LET r == unpack_one(bytes)
    IN  IF r.ok /\ r.rest = <<>> THEN [ok |-> TRUE, val |-> r.val]
        ELSE [ok |-> FALSE, val |-> PyNone]

\* ------------------------------------------------------------ frame header
\* struct.pack('!ibi', data_length, msg_type, msg_id): big-endian int32, int8,
\* int32 (two's complement).

Pack_i(n) ==
    <<(n \div 16777216) % 256, (n \div 65536) % 256, (n \div 256) % 256, n % 256>>

Unpack_i(b) ==
    (IF b[1] >= 128 THEN b[1] - 256 ELSE b[1]) * 16777216
        + b[2] * 65536 + b[3] * 256 + b[4]

Pack_b(n) == <<IF n < 0 THEN n + 256 ELSE n>>

Unpack_b(b) == IF b[1] >= 128 THEN b[1] - 256 ELSE b[1]

struct_pack(data_length, msg_type, msg_id) ==
    Pack_i(data_length) \o Pack_b(msg_type) \o Pack_i(msg_id)

struct_unpack(head) ==
    [data_length |-> Unpack_i(SubSeq(head, 1, 4)),
     msg_type |-> Unpack_b(SubSeq(head, 5, 5)),
     msg_id |-> Unpack_i(SubSeq(head, 6, 9))]

_pack_request(msg_id, msg_type, method_name, arg) ==
    LET buf == dumps(PyTuple(<<method_name, arg>>))
    IN  struct_pack(Len(buf), msg_type, msg_id) \o buf

_pack_response(msg_id, msg_type, err, result) ==
    LET buf == dumps(PyTuple(<<err, result>>))
    IN  struct_pack(Len(buf), msg_type, msg_id) \o buf

\* ------------------------------------------------------------------- state

VARIABLES
    buff,             \* [Conns -> bytes]: RPCConnection._buff
    generator,        \* [Conns -> the value the connection's next(_generator) yields]
    request_table,    \* [Conns -> [msg_id -> future]]: RPCConnection._request_table
    timers,           \* [Conns -> timeouts the io loop still holds]
    futures,          \* the Future objects created so far, by handle 1..Len
    out,              \* [Conns -> the buffers handed to write(), in order]
    rpc_clients,      \* DuplexRPCServer.rpc_clients: [name -> connection]
    request_timeout,  \* the request_timeout every connection is built with
    issued,           \* [Conns -> the values next(_generator) has returned]
    wire,             \* [Conns -> bytes the peer has sent and on_receive has not seen]
    nsent,            \* frames the peers have put on the wire
    nrecv,            \* reads handed to on_receive
    closed,           \* the connections whose stream has closed
    last              \* what the last callback did: its frames, exception, events

vars ==
    <<buff, generator, request_table, timers, futures, out, rpc_clients,
      request_timeout, issued, wire, nsent, nrecv, closed, last>>

NoExc == [type |-> "none", arg |-> PyNone]

\* The state a handler works on: the variables it can touch, the exception it
\* is raising (exc), its return value (ret), and what is recorded of its run.
Cur ==
    [buff |-> buff, generator |-> generator, request_table |-> request_table,
     timers |-> timers, futures |-> futures, out |-> out,
     rpc_clients |-> rpc_clients, request_timeout |-> request_timeout,
     issued |-> issued, exc |-> NoExc, ret |-> PyNone, handled |-> <<>>,
     events |-> <<>>]

Raise(S, type, arg) == [S EXCEPT !.exc = [type |-> type, arg |-> arg]]

Raised(S) == S.exc.type # "none"

Return(S, value) == [S EXCEPT !.ret = value]

\* logger calls and the on_* extension points, as observable events
Event(S, ev, c, val) ==
    [S EXCEPT !.events = Append(@, [ev |-> ev, conn |-> c, val |-> val])]

Pop(table, msg_id) == [i \in DOMAIN table \ {msg_id} |-> table[i]]

\* str(traceback.format_exc()): some non-empty text
format_exc == PyStr(<<69, 120, 99>>)

\* ---------------------------------------------------------------- transport

write(S, c, buf) == [S EXCEPT !.out[c] = Append(@, buf)]

\* --------------------------------------------------------------- _IDGenerator

\* the generator resetting when it reaches the bound, not when it exceeds it
_IDGenerator_resets_at_bound(counter) ==
    IF counter + 1 >= WrapBound THEN 0 ELSE counter + 1

\* one turn of the generator's loop: from the value just yielded to the next
_IDGenerator(counter) ==
    IF counter + 1 > WrapBound THEN 0 ELSE counter + 1

\* next(self._generator): yields generator[c] (read it before this) and resumes
next(S, c) ==
    [S EXCEPT !.generator[c] = _IDGenerator(@),
              !.issued[c] = Append(@, S.generator[c])]

\* -------------------------------------------------------------------- Future

\* a new Future; conn, msg_id and kind record what it was made for, and
\* completions how many times it has been completed
Future(c, msg_id, kind) ==
    [state |-> "pending", value |-> PyNone, conn |-> c, msg_id |-> msg_id,
     kind |-> kind, callbacks |-> <<>>, completions |-> 0]

\* RPCConnection.result_callback(msg_id, future); future.result() re-raises
\* the exception of a future that failed
result_callback(S, c, msg_id, h) ==
    IF S.futures[h].state = "exception"
    THEN Raise(S, "FutureError", S.futures[h].value)
    ELSE write(S, c, _pack_response(msg_id, RPC_RESPONSE, PyNone, S.futures[h].value))

\* RPCClient._register_callback(future), of the client on connection c
_register_callback(S, c, h) ==
    IF S.futures[h].state = "exception"
    THEN Raise(S, "FutureError", S.futures[h].value)
    ELSE IF ~Truthy(S.futures[h].value)
    THEN Raise(Event(S, "warning: register failed", c, S.futures[h].value),
               "RPCRegisterError", PyConn(c))
    ELSE Event(S, "on_registered", c, S.futures[h].value)

\* one done-callback of future h; an exception it raises is logged by the
\* future machinery and goes no further
run_callback(S, cb, h) ==
    LET S1 == IF cb.fn = "result_callback"
              THEN result_callback(S, cb.conn, cb.msg_id, h)
              ELSE IF cb.fn = "_register_callback"
              THEN _register_callback(S, cb.conn, h)
              ELSE Event(S, cb.fn, cb.conn, PyFuture(h))
    IN  IF Raised(S1)
        THEN Event([S1 EXCEPT !.exc = NoExc], "callback_exception", cb.conn, S1.exc.arg)
        ELSE S1

RECURSIVE run_callbacks(_, _, _)
run_callbacks(S, cbs, h) ==
    IF cbs = <<>> THEN S
    ELSE run_callbacks(run_callback(S, Head(cbs), h), Tail(cbs), h)

set_result(S, h, value) ==
    run_callbacks([S EXCEPT !.futures[h].state = "result", !.futures[h].value = value,
                            !.futures[h].completions = @ + 1],
                  S.futures[h].callbacks, h)

\* the asynchronous result of a method completing as a failure
set_exception(S, h, value) ==
    run_callbacks([S EXCEPT !.futures[h].state = "exception", !.futures[h].value = value,
                            !.futures[h].completions = @ + 1],
                  S.futures[h].callbacks, h)

add_done_callback(S, h, cb) ==
    IF S.futures[h].state = "pending"
    THEN [S EXCEPT !.futures[h].callbacks = Append(@, cb)]
    ELSE run_callback(S, cb, h)

\* ------------------------------------------------- RPCConnection, outbound

add_request_table(S, c, msg_id, h) ==
    LET S1 == IF S.request_timeout # 0
              THEN [S EXCEPT !.timers[c] = @ \cup {[msg_id |-> msg_id, h |-> h]}]
              ELSE S
    IN  [S1 EXCEPT !.request_table[c] = (msg_id :> h) @@ @]

\* call(method_name, *arg, callback=...): callbacks is <<>> or the one callback
call(S, c, method_name, arg, callbacks) ==
    LET msg_id == S.generator[c]
        S1 == next(S, c)
        buf == _pack_request(msg_id, RPC_REQUEST, method_name, arg)
        h == Len(S1.futures) + 1
        S2 == [S1 EXCEPT !.futures = Append(@, Future(c, msg_id, "call"))]
        S3 == add_request_table(S2, c, msg_id, h)
        S4 == [S3 EXCEPT !.futures[h].callbacks = @ \o callbacks]
    IN  Return(write(S4, c, buf), PyFuture(h))

notice(S, c, method_name, arg) ==
    LET msg_id == S.generator[c]
        S1 == next(S, c)
        buf == _pack_request(msg_id, RPC_NOTICE, method_name, arg)
    IN  write(S1, c, buf)

register(S, c, name, callbacks) ==
    LET msg_id == S.generator[c]
        S1 == next(S, c)
        buf == _pack_request(msg_id, RPC_REGISTER, PyStr(S_register), name)
        h == Len(S1.futures) + 1
        S2 == [S1 EXCEPT !.futures = Append(@, Future(c, msg_id, "register"))]
        S3 == [S2 EXCEPT !.futures[h].callbacks = @ \o callbacks]
        S4 == add_request_table(S3, c, msg_id, h)
    IN  Return(write(S4, c, buf), PyFuture(h))

message_timeout_cb(S, c, msg_id) ==
    IF msg_id \notin DOMAIN S.request_table[c]
    THEN Event(S, "debug: not exist, timeout?", c, PyInt(msg_id))
    ELSE Raise([S EXCEPT !.request_table[c] = Pop(@, msg_id)],
               "RPCTimeOutError", PyInt(msg_id))

\* ----------------------------------------------------------- DuplexRPCServer

\* _handle_rpc_register storing the name without looking it up first
_handle_rpc_register_overwrites(S, conn, name) ==
    Return(Event([S EXCEPT !.rpc_clients = (name :> conn) @@ @],
                 "on_registered", conn.v[1], name),
           PyBool(TRUE))

_handle_rpc_register(S, conn, name) ==
    IF name \in DOMAIN S.rpc_clients
    THEN Return(Event(S, "warning: already register", conn.v[1], name), PyBool(FALSE))
    ELSE Return(Event([S EXCEPT !.rpc_clients = (name :> conn) @@ @],
                      "on_registered", conn.v[1], name),
                PyBool(TRUE))

\* call_node handing the call to the requester's node when the name is absent
call_node_without_lookup(S, name, method_name, arg) ==
    LET node == IF name \in DOMAIN S.rpc_clients THEN S.rpc_clients[name] ELSE PyConn(1)
    IN  call(S, node.v[1], method_name, PyTuple(arg), <<>>)

call_node(S, name, method_name, arg) ==
    IF name \notin DOMAIN S.rpc_clients
    THEN Raise(S, "Exception: node not exist", name)
    ELSE LET node == S.rpc_clients[name]
         IN  call(S, node.v[1], method_name, PyTuple(arg), <<>>)

\* the names on_close's scan of rpc_clients can stop at: any name held by conn
\* (a dict is scanned in no particular order), None if there is none
on_close_scan(S, conn) ==
    IF \E _name \in DOMAIN S.rpc_clients : S.rpc_clients[_name] = conn
    THEN {_name \in DOMAIN S.rpc_clients : S.rpc_clients[_name] = conn}
    ELSE {PyNone}

\* on_close forgetting to pop the name it found
on_close_keeps_entry(S, conn, _node_name) ==
    IF Truthy(_node_name)
    THEN Event(S, "debug: disconnect", conn.v[1], _node_name)
    ELSE S

\* on_close(conn), its scan having stopped at _node_name
on_close(S, conn, _node_name) ==
    IF Truthy(_node_name)
    THEN Event([S EXCEPT !.rpc_clients = Pop(@, _node_name)],
               "debug: disconnect", conn.v[1], _node_name)
    ELSE S

\* ------------------------------------------------------------------ Services
\* The method table of the server: 'register' and 'call_node' (rpc.py:273-274)
\* and two application methods: echo returns its argument, slow returns a
\* Future that the application completes later; any other name raises.

S_echo == <<101, 99, 104, 111>>
S_slow == <<115, 108, 111, 119>>

service_call(S, method_name, argv) ==
    CASE method_name = PyStr(S_echo) /\ Len(argv) = 1 -> Return(S, argv[1])
      [] method_name = PyStr(S_slow) /\ Len(argv) = 1 ->
            Return([S EXCEPT !.futures = Append(@, Future(0, 0, "service"))],
                   PyFuture(Len(S.futures) + 1))
      [] method_name = PyStr(S_register) /\ Len(argv) = 2 /\ argv[1].t = "conn" ->
            _handle_rpc_register(S, argv[1], argv[2])
      [] method_name = PyStr(S_call_node) /\ Len(argv) >= 2 ->
            call_node(S, argv[1], argv[2], SubSeq(argv, 3, Len(argv)))
      [] OTHER -> Raise(S, "Exception", method_name)

\* -------------------------------------------------- RPCConnection, inbound

handle_rpc_request(S, c, msg_id, method_name, argv) ==
    LET r == service_call(S, method_name, argv)
    IN  IF Raised(r)
        THEN write([r EXCEPT !.exc = NoExc], c,
                   _pack_response(msg_id, RPC_RESPONSE, format_exc, PyNone))
        ELSE IF r.ret.t = "future"
        THEN add_done_callback(r, r.ret.v[1],
                 [fn |-> "result_callback", conn |-> c, msg_id |-> msg_id])
        ELSE write(r, c, _pack_response(msg_id, RPC_RESPONSE, PyNone, r.ret))

\* *args of a value: the items of a tuple, the characters of a str
Splat(x) ==
    CASE x.t = "arr" -> [ok |-> TRUE, items |-> x.v]
      [] x.t = "str" -> [ok |-> TRUE, items |-> [i \in 1..Len(x.v) |-> PyStr(<<x.v[i]>>)]]
      [] OTHER -> [ok |-> FALSE, items |-> <<>>]

\* handle_rpc_notice answering the way handle_rpc_request does
handle_rpc_notice_answers(S, c, msg_id, method_name, args) ==
    LET a == Splat(args)
        r == IF a.ok THEN service_call(S, method_name, a.items)
             ELSE Raise(S, "TypeError", args)
    IN  IF Raised(r)
        THEN write([r EXCEPT !.exc = NoExc], c,
                   _pack_response(msg_id, RPC_RESPONSE, format_exc, PyNone))
        ELSE r

handle_rpc_notice(S, c, msg_id, method_name, args) ==
    LET a == Splat(args)
        r == IF a.ok THEN service_call(S, method_name, a.items)
             ELSE Raise(S, "TypeError", args)
    IN  IF Raised(r)
        THEN Event([r EXCEPT !.exc = NoExc], "error: handle_rpc_notice", c, method_name)
        ELSE r

handle_rpc_register(S, c, msg_id, method_name, args) ==
    LET r == service_call(S, method_name, <<PyConn(c), args>>)
    IN  IF Raised(r)
        THEN write([r EXCEPT !.exc = NoExc], c,
                   _pack_response(msg_id, RPC_RESPONSE, format_exc, PyNone))
        ELSE IF r.ret.t = "future"
        THEN add_done_callback(r, r.ret.v[1],
                 [fn |-> "result_callback", conn |-> c, msg_id |-> msg_id])
        ELSE write(r, c, _pack_response(msg_id, RPC_RESPONSE, PyNone, r.ret))

\* handle_rpc_response reading the table entry without popping it
handle_rpc_response_keeps_entry(S, c, msg_id, err, ret) ==
    IF msg_id \notin DOMAIN S.request_table[c]
    THEN Event(S, "debug: response time out?", c, PyInt(msg_id))
    ELSE IF Truthy(err)
    THEN Raise(S, "RPCServerError", err)
    ELSE set_result(S, S.request_table[c][msg_id], ret)

\* handle_rpc_response popping the id without looking it up first
handle_rpc_response_no_lookup(S, c, msg_id, err, ret) ==
    IF msg_id \notin DOMAIN S.request_table[c]
    THEN Raise(S, "KeyError", PyInt(msg_id))
    ELSE IF Truthy(err)
    THEN Raise(S, "RPCServerError", err)
    ELSE LET future == S.request_table[c][msg_id]
         IN  set_result([S EXCEPT !.request_table[c] = Pop(@, msg_id)], future, ret)

handle_rpc_response(S, c, msg_id, err, ret) ==
    IF msg_id \notin DOMAIN S.request_table[c]
    THEN Event(S, "debug: response time out?", c, PyInt(msg_id))
    ELSE IF Truthy(err)
    THEN Raise(S, "RPCServerError", err)
    ELSE LET future == S.request_table[c][msg_id]
         IN  set_result([S EXCEPT !.request_table[c] = Pop(@, msg_id)], future, ret)

\* the branch of on_receive's loop body taken for one decoded frame
dispatch(S, c, msg_type, msg_id, req) ==
    LET pair == Splat(req)
    IN  IF msg_type \notin {RPC_REQUEST, RPC_RESPONSE, RPC_NOTICE, RPC_REGISTER}
        THEN S
        ELSE IF ~pair.ok \/ Len(pair.items) # 2
        THEN Raise(S, "ValueError", req)
        ELSE IF msg_type = RPC_REQUEST
        THEN LET a == Splat(pair.items[2])
             IN  IF a.ok THEN handle_rpc_request(S, c, msg_id, pair.items[1], a.items)
                 ELSE Raise(S, "TypeError", pair.items[2])
        ELSE IF msg_type = RPC_RESPONSE
        THEN handle_rpc_response(S, c, msg_id, pair.items[1], pair.items[2])
        ELSE IF msg_type = RPC_NOTICE
        THEN handle_rpc_notice(S, c, msg_id, pair.items[1], pair.items[2])
        ELSE handle_rpc_register(S, c, msg_id, pair.items[1], pair.items[2])

\* what a frame's dispatch can change, recorded before and after it
Snap(S) ==
    [buff |-> S.buff, request_table |-> S.request_table, futures |-> S.futures,
     out |-> S.out, rpc_clients |-> S.rpc_clients, generator |-> S.generator,
     timers |-> S.timers, nevents |-> Len(S.events)]

Handled(S, c, head, request, decoded, before) ==
    [S EXCEPT !.handled = Append(@,
        [msg_type |-> head.msg_type, msg_id |-> head.msg_id, request |-> request,
         decoded |-> decoded, raised |-> S.exc.type, rest |-> before.buff[c],
         before |-> before, after |-> Snap(S)])]

\* the two tests a buffer passes for the loop of on_receive to take a frame
\* off it: while _cur_len > HEAD_LEN, if _cur_len - HEAD_LEN >= data_length
FrameReady(b) ==
    /\ Len(b) > HEAD_LEN
    /\ Len(b) - HEAD_LEN >= struct_unpack(PySlice(b, 0, HEAD_LEN)).data_length

\* the while loop of on_receive, from its test
RECURSIVE on_receive_loop(_, _)
on_receive_loop(S, c) ==
    IF ~FrameReady(S.buff[c]) THEN S
    ELSE
        LET head == struct_unpack(PySlice(S.buff[c], 0, HEAD_LEN))
        IN
            LET request == PySlice(S.buff[c], HEAD_LEN, HEAD_LEN + head.data_length)
                S1 == [S EXCEPT !.buff[c] = PyTail(@, HEAD_LEN + head.data_length)]
                req == loads(request)
            IN  IF ~req.ok
                THEN Handled(Event(S1, "debug: decode", c, PyNone), c, head, request,
                             FALSE, Snap(S1))
                ELSE
                LET S2 == dispatch(S1, c, head.msg_type, head.msg_id, req.val)
                    S3 == Handled(S2, c, head, request, TRUE, Snap(S1))
                IN  IF Raised(S3) THEN S3 ELSE on_receive_loop(S3, c)

on_receive(S, c, data) ==
    on_receive_loop([S EXCEPT !.buff[c] = @ \o data], c)

\* ------------------------------------------------------------------ actions

\* the callback's result becomes the next state; closing is what the transport
\* has done to the connections' streams by then
Committed(S, op, c, arg, input, closing) ==
    \E R \in {S} :
        /\ closed' = closing
        /\ buff' = R.buff
        /\ generator' = R.generator
        /\ request_table' = R.request_table
        /\ timers' = R.timers
        /\ futures' = R.futures
        /\ out' = R.out
        /\ rpc_clients' = R.rpc_clients
        /\ issued' = R.issued
        /\ last' = [op |-> op, conn |-> c, arg |-> arg, input |-> input,
                    before |-> Snap(Cur), handled |-> R.handled, exc |-> R.exc,
                    events |-> R.events, ret |-> R.ret]
        /\ UNCHANGED request_timeout

Commit(S, op, c, arg, input) == Committed(S, op, c, arg, input, closed)

NCalls == Cardinality({h \in 1..Len(futures) : futures[h].kind # "service"})

\* the inputs the server's own code calls with
NodeA == PyStr(<<65>>)
NodeB == PyStr(<<66>>)
Answer == PyInt(42)

DoCall(c) ==
    /\ Commit(call(Cur, c, PyStr(S_echo), PyTuple(<<Answer>>), <<>>), "call", c, generator[c], <<>>)
    /\ UNCHANGED <<wire, nsent, nrecv>>

DoNotice(c) ==
    /\ Commit(notice(Cur, c, PyStr(S_echo), PyTuple(<<Answer>>)), "notice", c, generator[c], <<>>)
    /\ UNCHANGED <<wire, nsent, nrecv>>

DoRegister(c) ==
    /\ Commit(register(Cur, c, NodeA, <<>>), "register", c, generator[c], <<>>)
    /\ UNCHANGED <<wire, nsent, nrecv>>

Call(c) == Len(issued[c]) < MaxOps /\ DoCall(c)

Notice(c) == Len(issued[c]) < MaxOps /\ DoNotice(c)

Register(c) == Len(issued[c]) < MaxOps /\ DoRegister(c)

\* the io loop fires one of the timeouts it holds; what is recorded of it is
\* the id it carries and the future it was scheduled with
Timeout(c) ==
    \E t \in timers[c] :
        /\ Commit(message_timeout_cb([Cur EXCEPT !.timers[c] = @ \ {t}], c, t.msg_id),
                  "message_timeout_cb", c, t.msg_id, <<t.h>>)
        /\ UNCHANGED <<wire, nsent, nrecv>>

\* a frame as a peer builds it
Frame(msg_type, msg_id, payload) ==
    struct_pack(Len(payload), msg_type, msg_id) \o payload

RespOk(i) == _pack_response(i, RPC_RESPONSE, PyNone, Answer)
RespErr(i) == _pack_response(i, RPC_RESPONSE, format_exc, PyNone)
ReqEcho == _pack_request(7, RPC_REQUEST, PyStr(S_echo), PyTuple(<<Answer>>))
\* a payload msgpack cannot decode: c1 is the format byte it never uses
BadFrame == Frame(RPC_RESPONSE, 0, <<193>>)

\* The frames the peer of a connection sends in Spec, and what one read hands
\* to on_receive when frames arrive whole: one frame, or two frames back to
\* back.
PeerFrames == {RespOk(0), RespOk(1), RespErr(0), ReqEcho, BadFrame}

Chunks == PeerFrames \cup {f \o g : f \in PeerFrames, g \in PeerFrames}

Receive(c) ==
    /\ nrecv < MaxIn
    /\ nrecv' = nrecv + 1
    /\ \E data \in Chunks :
        Commit(on_receive(Cur, c, data), "on_receive", c, 0 - 1, buff[c] \o data)
    /\ UNCHANGED <<wire, nsent>>

Init ==
    /\ buff = [c \in Conns |-> <<>>]
    /\ generator = [c \in Conns |-> 0]
    /\ request_table = [c \in Conns |-> <<>>]
    /\ timers = [c \in Conns |-> {}]
    /\ futures = <<>>
    /\ out = [c \in Conns |-> <<>>]
    /\ rpc_clients = <<>>
    /\ request_timeout \in {0, 1}
    /\ issued = [c \in Conns |-> <<>>]
    /\ wire = [c \in Conns |-> <<>>]
    /\ nsent = 0
    /\ nrecv = 0
    /\ closed = {}
    /\ last = [op |-> "init", conn |-> 0, arg |-> 0 - 1, input |-> <<>>,
               before |-> Snap(Cur), handled |-> <<>>, exc |-> NoExc,
               events |-> <<>>, ret |-> PyNone]

\* The protocol engine of one connection: the server's code calls, notices and
\* registers on it, its peer's frames arrive, its timeouts fire.
Next ==
    \/ Call(1)
    \/ Notice(1)
    \/ Register(1)
    \/ Timeout(1)
    \/ Receive(1)

Spec == Init /\ [][Next]_vars

\* ------------------------------------------------------- serving a peer

S_boom == <<98, 111, 111, 109>>

ReqSlow == _pack_request(5, RPC_REQUEST, PyStr(S_slow), PyTuple(<<Answer>>))
\* a method the server does not have
ReqBoom == _pack_request(6, RPC_REQUEST, PyStr(S_boom), PyTuple(<<Answer>>))
NoticeEcho == _pack_request(2, RPC_NOTICE, PyStr(S_echo), PyTuple(<<Answer>>))
NoticeBoom == _pack_request(4, RPC_NOTICE, PyStr(S_boom), PyTuple(<<Answer>>))

\* what a peer that uses the server's methods sends in one read
ServeChunks ==
    {ReqEcho, ReqSlow, ReqBoom, NoticeEcho, NoticeBoom, NoticeBoom \o ReqEcho,
     ReqBoom \o ReqSlow}

ServeReceive(c) ==
    /\ nrecv < MaxServeIn
    /\ nrecv' = nrecv + 1
    /\ \E data \in ServeChunks :
        Commit(on_receive(Cur, c, data), "on_receive", c, 0 - 1, buff[c] \o data)
    /\ UNCHANGED <<wire, nsent>>

\* the application completes the asynchronous result of one of its methods
Resolve ==
    \E h \in 1..Len(futures) :
        /\ futures[h].kind = "service"
        /\ futures[h].state = "pending"
        /\ Commit(set_result(Cur, h, Answer), "set_result", 0, h, <<>>)
        /\ UNCHANGED <<wire, nsent, nrecv>>

\* the application fails it
Reject ==
    \E h \in 1..Len(futures) :
        /\ futures[h].kind = "service"
        /\ futures[h].state = "pending"
        /\ Commit(set_exception(Cur, h, format_exc), "set_exception", 0, h, <<>>)
        /\ UNCHANGED <<wire, nsent, nrecv>>

NextServe ==
    \/ ServeReceive(1)
    \/ Notice(1)
    \/ Resolve
    \/ Reject

SpecServe == Init /\ [][NextServe]_vars

\* ------------------------------------------------------------- RPCClient

\* RPCClient.__init__ with an rpc_name: the client registers its connection
ClientInit(c) ==
    /\ Len(issued[c]) = 0
    /\ Commit(register(Cur, c, NodeA,
                       <<[fn |-> "_register_callback", conn |-> c, msg_id |-> 0]>>),
              "RPCClient", c, generator[c], <<>>)
    /\ UNCHANGED <<wire, nsent, nrecv>>

RespTrue(i) == _pack_response(i, RPC_RESPONSE, PyNone, PyBool(TRUE))
RespFalse(i) == _pack_response(i, RPC_RESPONSE, PyNone, PyBool(FALSE))

\* what the duplex server answers a client's register and call with
ClientChunks == {RespTrue(0), RespFalse(0), RespTrue(1), RespFalse(1), RespOk(1)}

ClientReceive(c) ==
    /\ nrecv < MaxClientIn
    /\ nrecv' = nrecv + 1
    /\ \E data \in ClientChunks :
        Commit(on_receive(Cur, c, data), "on_receive", c, 0 - 1, buff[c] \o data)
    /\ UNCHANGED <<wire, nsent>>

NextClient ==
    \/ ClientInit(1)
    \/ Register(1)
    \/ Call(1)
    \/ ClientReceive(1)
    \/ Timeout(1)

SpecClient == Init /\ [][NextClient]_vars

\* ------------------------------------------------- the byte stream, cut anywhere

\* a frame with no payload at all
EmptyFrame == Frame(RPC_NOTICE, 0, <<>>)

StreamFrames == {RespOk(0), ReqEcho, BadFrame, EmptyFrame}

\* the peer writes one more frame to its end of the connection
PeerSend(c) ==
    /\ nsent < MaxStream
    /\ nsent' = nsent + 1
    /\ \E f \in StreamFrames : wire' = [wire EXCEPT ![c] = @ \o f]
    /\ UNCHANGED <<buff, generator, request_table, timers, futures, out, rpc_clients,
                   request_timeout, issued, nrecv, closed, last>>

\* the transport hands the next k bytes of the stream to on_receive, for any k
Deliver(c) ==
    \E k \in 1..Len(wire[c]) :
        /\ wire' = [wire EXCEPT ![c] = SubSeq(@, k + 1, Len(@))]
        /\ Commit(on_receive(Cur, c, SubSeq(wire[c], 1, k)), "on_receive", c, 0 - 1,
                  buff[c] \o SubSeq(wire[c], 1, k))
        /\ UNCHANGED <<nsent, nrecv>>

NextStream ==
    \/ PeerSend(1)
    \/ Deliver(1)

SpecStream == Init /\ [][NextStream]_vars

\* ------------------------------------------------ the generator, past its bound

\* next() invocations on a connection: enough to pass the bound and go on
MaxIssued == WrapBound + 6

WrapCall(c) == Len(issued[c]) < MaxIssued /\ NCalls < MaxCalls /\ DoCall(c)

WrapNotice(c) == Len(issued[c]) < MaxIssued /\ DoNotice(c)

WrapRegister(c) == Len(issued[c]) < MaxIssued /\ NCalls < MaxCalls /\ DoRegister(c)

\* the peer answers the call that has id 0
WrapReceive(c) ==
    /\ nrecv < MaxIn
    /\ nrecv' = nrecv + 1
    /\ Commit(on_receive(Cur, c, RespOk(0)), "on_receive", c, 0 - 1,
              buff[c] \o RespOk(0))
    /\ UNCHANGED <<wire, nsent>>

NextWrap ==
    \/ WrapCall(1)
    \/ WrapNotice(1)
    \/ WrapRegister(1)
    \/ WrapReceive(1)
    \/ Timeout(1)

SpecWrap == Init /\ [][NextWrap]_vars

\* ------------------------------------------------------- the duplex server

RegFrame(name) == _pack_request(3, RPC_REGISTER, PyStr(S_register), name)

ReqCallNode(name) ==
    _pack_request(9, RPC_REQUEST, PyStr(S_call_node),
                  PyTuple(<<name, PyStr(S_echo), Answer>>))

\* what the clients of a duplex server send it: they register under a name,
\* call a node by name, answer the calls routed to them
DuplexChunks ==
    {RegFrame(NodeA), RegFrame(NodeB), RegFrame(NodeA) \o RegFrame(NodeB),
     ReqCallNode(NodeA), ReqCallNode(NodeB) \o RegFrame(NodeB), RespOk(0), RespErr(0)}

DuplexReceive(c) ==
    /\ c \notin closed
    /\ nrecv < MaxDuplexIn
    /\ nrecv' = nrecv + 1
    /\ \E data \in DuplexChunks :
        Commit(on_receive(Cur, c, data), "on_receive", c, 0 - 1, buff[c] \o data)
    /\ UNCHANGED <<wire, nsent>>

\* the stream of connection c closes and the server's close callback runs
Close(c) ==
    /\ c \notin closed
    /\ \E _node_name \in on_close_scan(Cur, PyConn(c)) :
           Committed(on_close(Cur, PyConn(c), _node_name), "on_close", c, 0 - 1, <<>>,
                     closed \cup {c})
    /\ UNCHANGED <<wire, nsent, nrecv>>

NextDuplex ==
    \E c \in Conns :
        \/ DuplexReceive(c)
        \/ Timeout(c)
        \/ Close(c)

SpecDuplex == Init /\ [][NextDuplex]_vars

\* ------------------------------------------------- claims: the RESPONSE path

\* section 3 of the design: a frame is complete when the bytes buffered after
\* its header are at least its length field
CompleteFrame(b) ==
    /\ Len(b) >= HEAD_LEN
    /\ Len(b) - HEAD_LEN >= struct_unpack(SubSeq(b, 1, HEAD_LEN)).data_length

\* the frames the last on_receive took off the buffer, in order
LastFrames == IF last.op = "on_receive" THEN 1..Len(last.handled) ELSE {}

IsResponse(e) ==
    /\ e.decoded
    /\ e.msg_type = RPC_RESPONSE
    /\ Splat(loads(e.request).val).ok
    /\ Len(Splat(loads(e.request).val).items) = 2

RespErrOf(e) == Splat(loads(e.request).val).items[1]

RespRetOf(e) == Splat(loads(e.request).val).items[2]

\* the frame's id was in the connection's correlation table when it was dispatched
Known(e) == e.msg_id \in DOMAIN e.before.request_table[last.conn]

\* the frame's dispatch returned to the loop, and the loop went on to the
\* complete frames behind it
LoopWentOn(k) ==
    /\ last.handled[k].raised = "none"
    /\ k = Len(last.handled) => ~CompleteFrame(last.handled[k].rest)

\* the frame's dispatch returned to the loop, and on_receive ended no earlier
\* than at a test of its loop
LoopNotStopped(k) ==
    /\ last.handled[k].raised = "none"
    /\ k = Len(last.handled) => ~FrameReady(last.handled[k].rest)

\* what the dispatch of a frame left as it was, but for its log lines
Untouched(e) ==
    /\ e.after.request_table = e.before.request_table
    /\ e.after.futures = e.before.futures
    /\ e.after.out = e.before.out
    /\ e.after.rpc_clients = e.before.rpc_clients
    /\ e.after.generator = e.before.generator
    /\ e.after.timers = e.before.timers

\* C1: a RESPONSE with id i and no error, for an id in the correlation table,
\* completes the future that call returned for id i, with the RESPONSE's result
\* value, removes i from the table and completes no other future, whatever the
\* order the RESPONSEs of the outstanding calls arrive in.
C1_ResponseCompletesCall ==
    \A k \in LastFrames :
        LET e == last.handled[k]
            c == last.conn
        IN  (IsResponse(e) /\ ~Truthy(RespErrOf(e)) /\ Known(e)) =>
                LET h == e.before.request_table[c][e.msg_id]
                IN  /\ e.before.futures[h].state = "pending"
                    /\ e.before.futures[h].msg_id = e.msg_id
                    /\ e.before.futures[h].conn = c
                    /\ e.after.futures[h].state = "result"
                    /\ e.after.futures[h].value = RespRetOf(e)
                    /\ e.msg_id \notin DOMAIN e.after.request_table[c]
                    /\ \A g \in 1..Len(e.before.futures) :
                           g # h => e.after.futures[g] = e.before.futures[g]
                    /\ \A i \in DOMAIN e.before.request_table[c] \ {e.msg_id} :
                           /\ i \in DOMAIN e.after.request_table[c]
                           /\ e.after.request_table[c][i] = e.before.request_table[c][i]

\* two calls are outstanding and the RESPONSE of the second arrives first
C1_Witness ==
    /\ last.op = "on_receive"
    /\ Len(futures) = 2
    /\ futures[1].state = "pending"
    /\ futures[2].state = "result"
    /\ futures[2].value = Answer
    /\ DOMAIN request_table[1] = {0}
    /\ \E k \in LastFrames : last.handled[k].msg_id = 1 /\ Known(last.handled[k])

\* C2: a RESPONSE with a non-empty error, for an id in the correlation table,
\* removes the id and completes the call's future as a failure carrying the
\* error text.
C2_ErrorResponseFailsCall ==
    \A k \in LastFrames :
        LET e == last.handled[k]
            c == last.conn
        IN  (IsResponse(e) /\ Truthy(RespErrOf(e)) /\ Known(e)) =>
                LET h == e.before.request_table[c][e.msg_id]
                IN  /\ e.msg_id \notin DOMAIN e.after.request_table[c]
                    /\ e.after.futures[h].state = "exception"
                    /\ e.after.futures[h].value = RespErrOf(e)

\* C3: with a request timeout configured, the timer of a call that is still in
\* the correlation table removes the id and completes the call's future as a
\* timeout failure.
C3_TimeoutFailsCall ==
    (last.op = "message_timeout_cb"
        /\ last.arg \in DOMAIN last.before.request_table[last.conn]) =>
        LET h == last.before.request_table[last.conn][last.arg]
        IN  /\ last.arg \notin DOMAIN request_table[last.conn]
            /\ futures[h].state = "exception"

\* C4: a RESPONSE whose id is not in the correlation table completes no
\* future, leaves the table as it is, writes nothing, raises nothing, and its
\* dispatch does not end the loop: on_receive goes on to take the frames
\* behind it.
C4_UnknownResponseDiscarded ==
    \A k \in LastFrames :
        LET e == last.handled[k]
        IN  (IsResponse(e) /\ ~Known(e)) => (Untouched(e) /\ LoopNotStopped(k))

\* a RESPONSE for an id that timed out is discarded with a REQUEST behind it,
\* and the REQUEST is answered in the same read
C4_Witness ==
    /\ last.op = "on_receive"
    /\ Len(last.handled) = 2
    /\ IsResponse(last.handled[1])
    /\ ~Known(last.handled[1])
    /\ last.handled[1].msg_id = 0
    /\ Len(futures) >= 1
    /\ futures[1].state = "pending"
    /\ last.handled[2].msg_type = RPC_REQUEST
    /\ Len(out[1]) = Len(last.before.out[1]) + 1

\* C5: a frame whose payload fails to decode is dropped alone: the complete
\* frames behind it in the buffer are dispatched by the same on_receive.
C5_DecodeFailureDropsOneFrame ==
    \A k \in LastFrames :
        ~last.handled[k].decoded =>
            (k = Len(last.handled) => ~CompleteFrame(last.handled[k].rest))

\* C6: the dispatch of a RESPONSE that carries a non-empty error raises
\* nothing out of the loop, and the complete frames behind it are dispatched
\* by the same on_receive.
C6_ErrorResponseKeepsLoop ==
    \A k \in LastFrames :
        LET e == last.handled[k]
        IN  (IsResponse(e) /\ Truthy(RespErrOf(e))) => LoopWentOn(k)

\* ------------------------------------------------------ claims: reassembly

\* the frames a run of on_receive handed to a handler: type, id, payload
Dispatched(handled) ==
    LET sel == SelectSeq(handled, LAMBDA e : e.decoded)
    IN  [i \in 1..Len(sel) |->
            [msg_type |-> sel[i].msg_type, msg_id |-> sel[i].msg_id,
             request |-> sel[i].request]]

\* on_receive run again on the connection after an earlier run returned
Again(S) == [S EXCEPT !.handled = <<>>, !.exc = NoExc]

\* C7: the bytes on the wire dispatch the same frames, in the same order,
\* whether they reach on_receive as one chunk or cut in two at any place (and
\* so, a cut at a time, in any number of chunks).
C7_ChunkingEquivalence ==
    \A k \in 1..(Len(wire[1]) - 1) :
        LET whole == on_receive(Cur, 1, wire[1])
            first == on_receive(Cur, 1, SubSeq(wire[1], 1, k))
            second == on_receive(Again(first), 1, SubSeq(wire[1], k + 1, Len(wire[1])))
        IN  Dispatched(first.handled) \o Dispatched(second.handled)
                = Dispatched(whole.handled)

\* ------------------------------------------------------- claims: identifiers

\* the values a sequence of next() results holds after the bound first shows
AfterBound(seq) ==
    LET n == CHOOSE n \in 1..Len(seq) :
                 seq[n] = WrapBound /\ \A m \in 1..(n - 1) : seq[m] # WrapBound
    IN  SubSeq(seq, n + 1, Len(seq))

\* from 0, by 1 up to the bound, then 0 again
CountsUpAndWraps(seq) ==
    /\ Len(seq) > 0 => seq[1] = 0
    /\ \A n \in 1..(Len(seq) - 1) :
           seq[n + 1] = IF seq[n] = WrapBound THEN 0 ELSE seq[n] + 1

\* C8, as claimed: the values of a fresh generator count up by 1 from 0 to the
\* bound B and start again at 0, and the values B + 5 calls of next() return
\* after the bound are 0, 1, 2, 3, 4.
C8_WrapsAfterBPlus5 ==
    /\ CountsUpAndWraps(issued[1])
    /\ Len(issued[1]) = WrapBound + 5 => AfterBound(issued[1]) = <<0, 1, 2, 3, 4>>

\* C8, amended: the values count up by 1 from 0 to the bound B and start again
\* at 0; the bound itself is returned, so B + 1 values come before the wrap:
\* B + 5 calls return 0, 1, 2, 3 after the bound and B + 6 calls 0, 1, 2, 3, 4.
C8_WrapsAfterBPlus6 ==
    /\ CountsUpAndWraps(issued[1])
    /\ Len(issued[1]) = WrapBound + 5 => AfterBound(issued[1]) = <<0, 1, 2, 3>>
    /\ Len(issued[1]) = WrapBound + 6 => AfterBound(issued[1]) = <<0, 1, 2, 3, 4>>

C8_Witness ==
    /\ Len(issued[1]) = WrapBound + 6
    /\ issued[1][WrapBound + 1] = WrapBound
    /\ issued[1][WrapBound + 2] = 0

\* C9: while no more than the bound's worth of calls is outstanding, the id
\* call or register allocates is the id of no call in the correlation table.
C9_AllocatedIdNotPending ==
    (last.op \in {"call", "register"}
        /\ Cardinality(DOMAIN last.before.request_table[last.conn]) <= WrapBound) =>
        last.arg \notin DOMAIN last.before.request_table[last.conn]

\* ----------------------------------------------------- claims: the registry

IsRegister(e) ==
    /\ e.decoded
    /\ e.msg_type = RPC_REGISTER
    /\ Splat(loads(e.request).val).ok
    /\ Len(Splat(loads(e.request).val).items) = 2
    /\ Splat(loads(e.request).val).items[1] = PyStr(S_register)

RegNameOf(e) == Splat(loads(e.request).val).items[2]

\* the events of the last callback logged while frame e was dispatched
EventsOf(e) ==
    {last.events[n].ev : n \in (e.before.nevents + 1)..e.after.nevents}

\* the dispatch of frame e wrote one RESPONSE with e's id and this result
Answered(e, result) ==
    e.after.out[last.conn] =
        Append(e.before.out[last.conn],
               _pack_response(e.msg_id, RPC_RESPONSE, PyNone, result))

\* C10: a REGISTER for a name that another connection holds returns false,
\* leaves the registry as it is and does not invoke on_registered; a REGISTER
\* for a name that is absent stores name -> the connection and returns true.
C10_DuplicateRegisterRejected ==
    \A k \in LastFrames :
        LET e == last.handled[k]
            name == RegNameOf(e)
        IN  IsRegister(e) =>
                /\ (name \in DOMAIN e.before.rpc_clients
                        /\ e.before.rpc_clients[name] # PyConn(last.conn)) =>
                       /\ e.after.rpc_clients = e.before.rpc_clients
                       /\ "on_registered" \notin EventsOf(e)
                       /\ Answered(e, PyBool(FALSE))
                /\ name \notin DOMAIN e.before.rpc_clients =>
                       /\ e.after.rpc_clients = (name :> PyConn(last.conn)) @@ e.before.rpc_clients
                       /\ Answered(e, PyBool(TRUE))

\* connection 1 holds the name and connection 2's REGISTER for it is refused
C10_Witness ==
    /\ last.op = "on_receive"
    /\ last.conn = 2
    /\ NodeA \in DOMAIN rpc_clients
    /\ rpc_clients[NodeA] = PyConn(1)
    /\ \E k \in LastFrames :
           /\ IsRegister(last.handled[k])
           /\ RegNameOf(last.handled[k]) = NodeA
           /\ NodeA \in DOMAIN last.handled[k].before.rpc_clients
           /\ Answered(last.handled[k], PyBool(FALSE))

\* ------------------------------------------------------ claims: call_node

IsCallNode(e) ==
    /\ e.decoded
    /\ e.msg_type = RPC_REQUEST
    /\ Splat(loads(e.request).val).ok
    /\ Len(Splat(loads(e.request).val).items) = 2
    /\ Splat(loads(e.request).val).items[1] = PyStr(S_call_node)
    /\ Splat(loads(e.request).val).items[2].t = "arr"
    /\ Len(Splat(loads(e.request).val).items[2].v) >= 2

\* the arguments of the call_node REQUEST: name, method_name, *arg
CallNodeArgs(e) == Splat(loads(e.request).val).items[2].v

\* the dispatch of frame e wrote one RESPONSE with e's id and an error text to
\* its own connection, and nothing to any other
AnsweredError(e) ==
    e.after.out =
        [e.before.out EXCEPT ![last.conn] =
            Append(@, _pack_response(e.msg_id, RPC_RESPONSE, format_exc, PyNone))]

\* C11: call_node for a name that is not in the registry raises and writes
\* nothing, takes no identifier and adds no entry to any correlation table;
\* the REQUEST that asked for it is answered with the error and the loop goes
\* on to the frames behind it.
C11_UnknownNodeFails ==
    /\ \A name \in {NodeA, NodeB} :
           name \notin DOMAIN rpc_clients =>
               LET r == call_node(Cur, name, PyStr(S_echo), <<Answer>>)
               IN  /\ Raised(r)
                   /\ r.out = out
                   /\ r.generator = generator
                   /\ r.request_table = request_table
                   /\ r.futures = futures
    /\ \A k \in LastFrames :
           LET e == last.handled[k]
           IN  (IsCallNode(e) /\ CallNodeArgs(e)[1] \notin DOMAIN e.before.rpc_clients) =>
                   /\ e.after.generator = e.before.generator
                   /\ e.after.request_table = e.before.request_table
                   /\ e.after.futures = e.before.futures
                   /\ e.after.rpc_clients = e.before.rpc_clients
                   /\ AnsweredError(e)
                   /\ LoopNotStopped(k)

\* a call_node REQUEST for a name nobody holds is answered with the error and
\* the REGISTER behind it is served in the same read
C11_Witness ==
    /\ last.op = "on_receive"
    /\ Len(last.handled) = 2
    /\ IsCallNode(last.handled[1])
    /\ CallNodeArgs(last.handled[1])[1] = NodeB
    /\ NodeB \notin DOMAIN last.handled[1].before.rpc_clients
    /\ AnsweredError(last.handled[1])
    /\ IsRegister(last.handled[2])
    /\ NodeB \in DOMAIN rpc_clients

\* ------------------------------------------------ claims: serving requests

\* the handler state a snapshot was taken of
At(snap) ==
    [Cur EXCEPT !.buff = snap.buff, !.request_table = snap.request_table,
                !.futures = snap.futures, !.out = snap.out,
                !.rpc_clients = snap.rpc_clients, !.generator = snap.generator,
                !.timers = snap.timers]

\* a decoded frame of this type that carries (method_name, args)
IsInvocation(e, msg_type) ==
    /\ e.decoded
    /\ e.msg_type = msg_type
    /\ Splat(loads(e.request).val).ok
    /\ Len(Splat(loads(e.request).val).items) = 2
    /\ Splat(Splat(loads(e.request).val).items[2]).ok

\* the method invoked for frame e, run on the state the frame found
Invoked(e) ==
    service_call(At(e.before), Splat(loads(e.request).val).items[1],
                 Splat(Splat(loads(e.request).val).items[2]).items)

\* out with one RESPONSE more on connection c
WithResponse(o, c, msg_id, err, result) ==
    [o EXCEPT ![c] = Append(@, _pack_response(msg_id, RPC_RESPONSE, err, result))]

\* the done-callbacks that answer a REQUEST when future h completes
Answering(fs, h) ==
    {n \in 1..Len(fs[h].callbacks) : fs[h].callbacks[n].fn = "result_callback"}

\* C12: a REQUEST with id i is answered with one RESPONSE with id i on its
\* connection: at once with the error if the method raises, at once with the
\* result if it returns one, and if it returns an asynchronous result, when
\* that completes: with the result if it succeeded, with the error if it
\* failed.
C12_OneResponsePerRequest ==
    /\ \A k \in LastFrames :
           LET e == last.handled[k]
               c == last.conn
               r == Invoked(e)
           IN  IsInvocation(e, RPC_REQUEST) =>
                   IF Raised(r)
                   THEN e.after.out = WithResponse(r.out, c, e.msg_id, format_exc, PyNone)
                   ELSE IF r.ret.t # "future"
                   THEN e.after.out = WithResponse(r.out, c, e.msg_id, PyNone, r.ret)
                   ELSE /\ e.after.out = r.out
                        /\ \E n \in Answering(e.after.futures, r.ret.v[1]) :
                               e.after.futures[r.ret.v[1]].callbacks[n] =
                                   [fn |-> "result_callback", conn |-> c, msg_id |-> e.msg_id]
    /\ (last.op \in {"set_result", "set_exception"}) =>
           \A n \in Answering(last.before.futures, last.arg) :
               LET cb == last.before.futures[last.arg].callbacks[n]
               IN  out = IF last.op = "set_result"
                         THEN WithResponse(last.before.out, cb.conn, cb.msg_id, PyNone,
                                           futures[last.arg].value)
                         ELSE WithResponse(last.before.out, cb.conn, cb.msg_id,
                                           futures[last.arg].value, PyNone)

\* ------------------------------------------------------- claims: notices

\* C13: the dispatch of a NOTICE writes no frame of its own, whether the
\* method it invokes returns or raises, and raises nothing out of the loop;
\* notice() writes its one frame, adds no entry to the correlation table and
\* schedules no timeout.
C13_NoticeNeverAnswered ==
    /\ \A k \in LastFrames :
           LET e == last.handled[k]
           IN  IsInvocation(e, RPC_NOTICE) =>
                   /\ e.after.out = Invoked(e).out
                   /\ LoopNotStopped(k)
    /\ last.op = "notice" =>
           /\ request_table = last.before.request_table
           /\ timers = last.before.timers
           /\ futures = last.before.futures
           /\ Len(out[last.conn]) = Len(last.before.out[last.conn]) + 1

\* a NOTICE for a method that raises has been dispatched with a REQUEST behind
\* it: only the REQUEST was answered; and notice() has run with timeouts on
C13_Witness ==
    /\ last.op = "on_receive"
    /\ Len(last.handled) = 2
    /\ IsInvocation(last.handled[1], RPC_NOTICE)
    /\ Raised(Invoked(last.handled[1]))
    /\ last.handled[1].after.out = last.handled[1].before.out
    /\ IsInvocation(last.handled[2], RPC_REQUEST)
    /\ Len(out[1]) = Len(last.before.out[1]) + 1
    /\ request_timeout # 0
    /\ Len(issued[1]) > 0

\* ------------------------------------------------------- claims: closing

\* the names the registry maps to connection c
HeldBy(c) == {name \in DOMAIN rpc_clients : rpc_clients[name] = PyConn(c)}

\* C14: when a connection closes, every future that is still in its
\* correlation table is completed as a failure.
C14_ClosePendingFail ==
    last.op = "on_close" =>
        \A i \in DOMAIN last.before.request_table[last.conn] :
            futures[last.before.request_table[last.conn][i]].state = "exception"

\* C15: a connection owns at most one registry entry, and the registry holds
\* no entry for a connection that has closed.
C15_RegistryCleanOnClose ==
    /\ \A c \in Conns : Cardinality(HeldBy(c)) <= 1
    /\ \A c \in closed : HeldBy(c) = {}

\* ------------------------------------------------------- claims: routing

\* C17: a call_node REQUEST from connection A for a name registered to
\* connection B writes one REQUEST for the method on B, under the next id of
\* B's generator, and nothing else; B's RESPONSE to it writes one RESPONSE to A
\* with A's id and B's outcome: B's result if it succeeded, B's error if it
\* failed.
C17_CallNodeRoutes ==
    \A k \in LastFrames :
        LET e == last.handled[k]
        IN  /\ (IsCallNode(e) /\ CallNodeArgs(e)[1] \in DOMAIN e.before.rpc_clients) =>
                   LET b == e.before.rpc_clients[CallNodeArgs(e)[1]].v[1]
                       arg == SubSeq(CallNodeArgs(e), 3, Len(CallNodeArgs(e)))
                   IN  /\ e.after.out =
                              [e.before.out EXCEPT ![b] =
                                  Append(@, _pack_request(e.before.generator[b], RPC_REQUEST,
                                                          CallNodeArgs(e)[2], PyTuple(arg)))]
                       /\ e.after.generator =
                              [e.before.generator EXCEPT ![b] = _IDGenerator(@)]
                       /\ e.before.generator[b] \in DOMAIN e.after.request_table[b]
            /\ (IsResponse(e) /\ Known(e)) =>
                   LET h == e.before.request_table[last.conn][e.msg_id]
                   IN  \A n \in Answering(e.before.futures, h) :
                           LET cb == e.before.futures[h].callbacks[n]
                           IN  e.after.out =
                                   IF Truthy(RespErrOf(e))
                                   THEN WithResponse(e.before.out, cb.conn, cb.msg_id,
                                                     RespErrOf(e), PyNone)
                                   ELSE WithResponse(e.before.out, cb.conn, cb.msg_id,
                                                     PyNone, RespRetOf(e))

\* ----------------------------------------------------- claims: RPCClient

\* C16: the future register returned completes with what the remote answered,
\* true or false, and a false answer is not lost in an exception raised
\* inside a done-callback of that future.
C16_RegisterOutcomeObservable ==
    \A k \in LastFrames :
        LET e == last.handled[k]
            c == last.conn
        IN  (IsResponse(e) /\ ~Truthy(RespErrOf(e)) /\ Known(e)
                /\ e.before.futures[e.before.request_table[c][e.msg_id]].kind = "register") =>
                LET h == e.before.request_table[c][e.msg_id]
                IN  /\ e.after.futures[h].state = "result"
                    /\ e.after.futures[h].value = RespRetOf(e)
                    /\ "callback_exception" \notin EventsOf(e)

\* ------------------------------------------------ claims: completing once

\* the futures a correlation table of this snapshot leads to
InTable(tables) ==
    UNION {{tables[c][i] : i \in DOMAIN tables[c]} : c \in Conns}

\* the futures call and register returned
CallFutures(fs) == {h \in 1..Len(fs) : fs[h].kind # "service"}

\* C18: no future is completed more than once: a completed future is in no
\* correlation table, and a future that was completed, or was out of the
\* table, when a callback began is as it was when the callback ends.
C18_CompletedAtMostOnce ==
    /\ \A h \in CallFutures(futures) :
           /\ futures[h].completions <= 1
           /\ futures[h].state # "pending" => h \notin InTable(request_table)
    /\ \A h \in CallFutures(last.before.futures) :
           (last.before.futures[h].state # "pending"
               \/ h \notin InTable(last.before.request_table)) =>
               futures[h] = last.before.futures[h]
    /\ \A k \in LastFrames :
           \A h \in CallFutures(last.handled[k].before.futures) :
               (last.handled[k].before.futures[h].state # "pending"
                   \/ h \notin InTable(last.handled[k].before.request_table)) =>
                   last.handled[k].after.futures[h] = last.handled[k].before.futures[h]

\* one read brings the RESPONSE of a call twice: the first completes the
\* call, the second finds its id gone
C18_Witness ==
    /\ last.op = "on_receive"
    /\ Len(last.handled) = 2
    /\ IsResponse(last.handled[1])
    /\ IsResponse(last.handled[2])
    /\ last.handled[1].msg_id = last.handled[2].msg_id
    /\ Known(last.handled[1])
    /\ ~Known(last.handled[2])
    /\ \E h \in CallFutures(futures) :
           /\ futures[h].msg_id = last.handled[1].msg_id
           /\ futures[h].completions = 1

\* ------------------------------------------------ claims: the buffer drained

\* C19: when on_receive returns, the buffer holds no complete frame: what is
\* left is a part of a header, or a header with less payload behind it than
\* its length field says; a frame with no payload is complete with its header.
C19_BufferHoldsNoCompleteFrame ==
    last.op = "on_receive" => ~CompleteFrame(buff[last.conn])

\* ------------------------------------------------- claims: whose timeout

\* C20: a timeout evicts only the call it was scheduled for: the future
\* message_timeout_cb pops from the correlation table is the future whose
\* registration scheduled that timeout, also after the generator has wrapped.
C20_TimeoutEvictsOwnCall ==
    (last.op = "message_timeout_cb"
        /\ last.arg \in DOMAIN last.before.request_table[last.conn]
        /\ last.arg \notin DOMAIN request_table[last.conn]) =>
        last.before.request_table[last.conn][last.arg] = last.input[1]

====
